---- MODULE Spec2Model ----
(***************************************************************************)
(* Model of app.py: the Streamlit ANOVA tool.                              *)
(*                                                                         *)
(* A dataset is the sequence of its columns; a column carries its header   *)
(* name, whether pandas gives it a numeric dtype, and how many distinct    *)
(* values it holds.  The cell values themselves are only ever consumed by  *)
(* statsmodels / seaborn, so the model keeps what app.py decides on: the   *)
(* column roles, the formula, the columns handed to each library call, the *)
(* text lines written to the PDF, the pages and the temp files.            *)
(*                                                                         *)
(* Lengths are in millimetres (FPDF's default unit).                       *)
(***************************************************************************)
EXTENDS Integers, Sequences, FiniteSets, TLC

\* ----------------------------------------------------------------- bounds
MaxCols == 5
MaxLevels == 10
MaxRequests == 2

\* ------------------------------------------------------------ input space
\* Header names as read_excel delivers them: pairwise distinct
\* (pandas renames a repeated header to "x.1").
ColumnNames ==
    <<"dose", "batch", "site", "yield", "block", "temp", "plot", "age">>

None == "<None>"

Datasets ==
    UNION { { [i \in 1..n |-> [name    |-> ColumnNames[i],
                               numeric |-> f[i][1],
                               levels  |-> f[i][2]]] :
                f \in [1..n -> BOOLEAN \X {2, MaxLevels}] } :
            n \in 0..MaxCols }

\* ---------------------------------------------------------------- helpers
Range(s) == { s[i] : i \in 1..Len(s) }

IsNumeric(c) == c.numeric

\* df.columns.tolist()
columns(d) == [i \in 1..Len(d) |-> d[i].name]

\* df.select_dtypes(include=[np.number]).columns.tolist()
numeric_cols(d) ==
    LET nums == SelectSeq(d, IsNumeric)
    IN  [i \in 1..Len(nums) |-> nums[i].name]

\* list.remove(x): drops the first occurrence of x
RECURSIVE remove(_, _)
remove(s, x) ==
    IF s = <<>> THEN <<>>
    ELSE IF Head(s) = x THEN Tail(s)
    ELSE <<Head(s)>> \o remove(Tail(s), x)

\* ------------------------------------------------------- detect_factors
detect_factors_first(d) ==
    LET nc == numeric_cols(d)
    IN  IF Len(nc) = 0
        THEN [factors |-> <<>>, value_col |-> None]
        ELSE [factors   |-> remove(columns(d), nc[1]),
              value_col |-> nc[1]]

detect_factors_noreturn(d) ==
    LET nc == numeric_cols(d)
    IN  IF Len(nc) = 0
        THEN [factors |-> columns(d), value_col |-> None]
        ELSE [factors   |-> remove(columns(d), nc[Len(nc)]),
              value_col |-> nc[Len(nc)]]

detect_factors(d) ==
    LET nc == numeric_cols(d)
    IN  IF Len(nc) = 0
        THEN [factors |-> <<>>, value_col |-> None]
        ELSE [factors   |-> remove(columns(d), nc[Len(nc)]),
              value_col |-> nc[Len(nc)]]

\* ------------------------------------------------------------ run_anova
\* A formula string "y ~ C(a) * C(b)" is kept as its response, the
\* operands C(.) in order and the operators between them.
\* Terms is patsy's expansion, left to right: a term is the set of the
\* factors it crosses;  S * t = S + t + S:t,  S + t,  S : t.
RECURSIVE Terms(_, _)
Terms(operands, ops) ==
    IF Len(operands) = 1 THEN { {operands[1]} }
    ELSE LET n    == Len(operands)
             left == Terms(SubSeq(operands, 1, n - 1), SubSeq(ops, 1, n - 2))
             t    == operands[n]
             op   == ops[n - 1]
         IN  IF op = "*" THEN left \cup {{t}} \cup { s \cup {t} : s \in left }
             ELSE IF op = "+" THEN left \cup {{t}}
             ELSE { s \cup {t} : s \in left }

Fitted(branch, value_col, operands, ops) ==
    [status   |-> "ok",
     branch   |-> branch,
     response |-> value_col,
     operands |-> operands,
     ops      |-> ops,
     terms    |-> Terms(operands, ops)]

ValueError == [status |-> "ValueError", branch |-> "else", response |-> None,
               operands |-> <<>>, ops |-> <<>>, terms |-> {}]

run_anova_additive(factors, value_col) ==
    IF Len(factors) = 1
    THEN Fitted("1", value_col, <<factors[1]>>, <<>>)
    ELSE IF Len(factors) = 2
    THEN Fitted("2", value_col, <<factors[1], factors[2]>>, <<"+">>)
    ELSE IF Len(factors) < 3
    THEN ValueError
    ELSE Fitted("else", value_col,
                <<factors[1], factors[2], factors[3]>>, <<"*", "+">>)

run_anova_last3(factors, value_col) ==
    IF Len(factors) = 1
    THEN Fitted("1", value_col, <<factors[1]>>, <<>>)
    ELSE IF Len(factors) = 2
    THEN Fitted("2", value_col, <<factors[1], factors[2]>>, <<"*">>)
    ELSE IF Len(factors) < 3
    THEN ValueError
    ELSE LET n == Len(factors)
         IN  Fitted("else", value_col,
                    <<factors[n - 2], factors[n - 1], factors[n]>>,
                    <<"*", "*">>)

run_anova(factors, value_col) ==
    IF Len(factors) = 1
    THEN Fitted("1", value_col, <<factors[1]>>, <<>>)
    ELSE IF Len(factors) = 2
    THEN Fitted("2", value_col, <<factors[1], factors[2]>>, <<"*">>)
    ELSE IF Len(factors) < 3
    THEN ValueError        \* f1, f2, f3 = factors[:3] cannot unpack
    ELSE Fitted("else", value_col,
                <<factors[1], factors[2], factors[3]>>, <<"*", "*">>)

\* anova_table.to_string().split("\n"): header, one row per term, Residual
AnovaLines(a) == 1 + Cardinality(a.terms) + 1

\* ----------------------------------------------------------- tukey_test
\* A text is the sequence of its lines (what split("\n") returns); a line
\* is the sequence of its tokens, so the empty string is one empty line.
EmptyStr == << <<>> >>

\* a + b on strings
StrCat(a, b) ==
    SubSeq(a, 1, Len(a) - 1) \o << a[Len(a)] \o b[1] >> \o Tail(b)

Token(kind, groups, endog, row) ==
    [kind |-> kind, groups |-> groups, endog |-> endog, row |-> row]

ColumnOf(d, name) == d[CHOOSE i \in 1..Len(d) : d[i].name = name]

\* all pairs among k groups
Pairs(k) == (k * (k - 1)) \div 2

tukey_test_swapped(d, factor, value_col) ==
    [endog  |-> factor,
     groups |-> value_col,
     npairs |-> Pairs(ColumnOf(d, value_col).levels)]

\* pairwise_tukeyhsd(df[value_col], df[factor])
tukey_test(d, factor, value_col) ==
    [endog  |-> value_col,
     groups |-> factor,
     npairs |-> Pairs(ColumnOf(d, factor).levels)]

\* str(tukey.summary()): title, rule, column heads, rule, one row per
\* pair, closing rule
Summary(t) ==
    << <<Token("title", t.groups, t.endog, 0)>>,
       <<Token("rule",  t.groups, t.endog, 0)>>,
       <<Token("head",  t.groups, t.endog, 0)>>,
       <<Token("rule",  t.groups, t.endog, 0)>> >>
    \o [i \in 1..t.npairs |-> <<Token("pair", t.groups, t.endog, i)>>]
    \o << <<Token("rule", t.groups, t.endog, 0)>> >>

\* f"\n\n<factor label>{f}\n{tukey.summary()}"
Section(f, t) ==
    StrCat(<< <<>>, <<>>, <<Token("label", f, None, 0)>>, <<>> >>, Summary(t))

\* --------------------------------------------------------- create_plots
Plot(kind, x, y, hue, style, group_by, title) ==
    [kind |-> kind, x |-> x, y |-> y, hue |-> hue, style |-> style,
     group_by |-> group_by, title |-> title]

\* fig1: sns.boxplot on df; fig2: sns.lineplot on
\* df.groupby(factors)[value_col].mean()
create_plots(factors, value_col) ==
    LET second == IF Len(factors) > 1 THEN factors[2] ELSE None
    IN  << Plot("boxplot", factors[1], value_col, second, None, <<>>, factors),
           Plot("lineplot", factors[1], value_col, second, second,
                factors, factors) >>

\* --------------------------------------------------------- generate_pdf
\* FPDF() defaults: A4 portrait, 1 cm top margin, automatic page break
\* 2 cm above the bottom edge of the 297 mm page.
TopMargin == 10
PageBreakTrigger == 277

\* pdf.cell(0, h, txt, ln=True): breaks to a new page first when the cell
\* would pass the trigger
Cell(st, h) ==
    IF st.y + h > PageBreakTrigger
    THEN [page |-> st.page + 1, y |-> TopMargin + h]
    ELSE [page |-> st.page, y |-> st.y + h]

\* pdf.ln(h)
Ln(st, h) == [page |-> st.page, y |-> st.y + h]

\* n cells of height h, one per text line: the loop "for row in ...:
\* pdf.cell(0, h, row, ln=True)", taken a page at a time (fit cells still
\* go on the current page, the next one breaks)
RECURSIVE Cells(_, _, _)
Cells(st, h, n) ==
    LET room == PageBreakTrigger - st.y
        fit  == IF room < h THEN 0 ELSE room \div h
    IN  IF n <= fit
        THEN [page |-> st.page, y |-> st.y + n * h]
        ELSE Cells(Cell([page |-> st.page, y |-> st.y + fit * h], h),
                   h, n - fit - 1)

\* the cursor after the title and both text sections
TextLayout(nanova, ntukey) ==
    LET s0 == [page |-> 1, y |-> TopMargin]            \* add_page
        s1 == Cell(s0, 10)                              \* title
        s2 == Cell(Ln(s1, 5), 8)                        \* heading 1
        s3 == Cells(s2, 6, nanova)                      \* ANOVA rows
        s4 == Cell(Ln(s3, 5), 8)                        \* heading 2
    IN  Cells(s4, 5, ntukey)                            \* Tukey lines

PageOfText == [kind |-> "text", fig |-> 0]
PageOfFig(i, p) == [kind |-> p.kind, fig |-> i]

NoReport == [status |-> "none", font |-> None, pages |-> <<>>,
             temp_created |-> 0, path |-> None]

generate_pdf_onepage(anova_table, tukey_results, plots, font, simhei) ==
    IF ~font /\ ~simhei
    THEN [status |-> "RuntimeError", font |-> None, pages |-> <<>>,
          temp_created |-> 0, path |-> None]
    ELSE LET end == TextLayout(AnovaLines(anova_table), Len(tukey_results))
         IN  [status |-> "ok",
              font   |-> IF font THEN "SourceHanSansSC-Regular.otf"
                         ELSE "SimHei.ttf",
              pages  |-> [i \in 1..end.page |-> PageOfText]
                         \o (IF plots = <<>> THEN <<>>
                             ELSE <<PageOfFig(Len(plots), plots[Len(plots)])>>),
              temp_created |-> Len(plots),
              path   |-> "anova_report.pdf"]

generate_pdf(anova_table, tukey_results, plots, font, simhei) ==
    IF ~font /\ ~simhei
    THEN \* add_font("CN", "", "./SimHei.ttf") finds no file
         [status |-> "RuntimeError", font |-> None, pages |-> <<>>,
          temp_created |-> 0, path |-> None]
    ELSE LET end == TextLayout(AnovaLines(anova_table), Len(tukey_results))
         IN  [status |-> "ok",
              font   |-> IF font THEN "SourceHanSansSC-Regular.otf"
                         ELSE "SimHei.ttf",
              pages  |-> [i \in 1..end.page |-> PageOfText]
                         \o [i \in 1..Len(plots) |-> PageOfFig(i, plots[i])],
              temp_created |-> Len(plots),
              path   |-> "anova_report.pdf"]

\* ------------------------------------------------------- session driver
VARIABLES
    df,            \* the uploaded dataset
    pc,            \* where the script run stands
    button,        \* st.button("... PDF ...") of this run
    factors,       \* detect_factors' first result
    value_col,     \* detect_factors' second result
    anova_table,   \* run_anova's result
    next_f,        \* position of the Tukey loop in factors
    tukey_output,  \* the text accumulated by the Tukey loop
    plots,         \* create_plots' result
    report,        \* generate_pdf's outcome in this run
    temp_files,    \* temp image files existing in the process's temp dir
    calls,         \* the calls this run has made, in order
    message        \* what st.error showed in this run

vars == <<df, pc, button, factors, value_col, anova_table, next_f,
          tukey_output, plots, report, temp_files, calls, message>>

\* the two figures create_plots appends
ChartsPerRequest == 2

FontFiles == {"./SourceHanSansSC-Regular.otf", "./SimHei.ttf"}

NoAnova == [status |-> "none", branch |-> "", response |-> None,
            operands |-> <<>>, ops |-> <<>>, terms |-> {}]

Call(fn, fs, v, files) ==
    [fn |-> fn, factors |-> fs, value_col |-> v, files |-> files]

\* if len(factors) == 0: st.error(...); st.stop()
ShouldStop_novalue(fs, v) == v = None

ShouldStop(fs, v) == Len(fs) = 0

Init ==
    /\ df = <<>>
    /\ pc = "await"
    /\ button = FALSE
    /\ factors = <<>>
    /\ value_col = None
    /\ anova_table = NoAnova
    /\ next_f = 1
    /\ tukey_output = EmptyStr
    /\ plots = <<>>
    /\ report = NoReport
    /\ temp_files = 0
    /\ calls = <<>>
    /\ message = ""

\* every interaction reruns the script from the top
StartRun(to) ==
    /\ pc' = to
    /\ factors' = <<>>
    /\ value_col' = None
    /\ anova_table' = NoAnova
    /\ next_f' = 1
    /\ tukey_output' = EmptyStr
    /\ plots' = <<>>
    /\ report' = NoReport
    /\ calls' = <<>>
    /\ message' = ""

\* st.file_uploader delivers a file; pd.read_excel loads it
Upload ==
    /\ pc = "await"
    /\ \E d \in Datasets : df' = d
    /\ button' = FALSE
    /\ StartRun("detect")
    /\ UNCHANGED temp_files

\* the user removes the file from the uploader: the rerun finds
\* "if uploaded:" false and shows only the title
ClearUpload ==
    /\ pc \in {"idle", "stopped"}
    /\ df' = <<>>
    /\ button' = FALSE
    /\ StartRun("await")
    /\ UNCHANGED temp_files

\* the user presses the PDF button under the displayed results
ClickButton ==
    /\ pc = "idle"
    /\ temp_files < MaxRequests * ChartsPerRequest
    /\ button' = TRUE
    /\ StartRun("detect")
    /\ UNCHANGED <<df, temp_files>>

DetectFactors ==
    /\ pc = "detect"
    /\ LET r == detect_factors(df)
       IN  /\ factors' = r.factors
           /\ value_col' = r.value_col
    /\ calls' = Append(calls, Call("detect_factors", <<>>, None, {}))
    /\ pc' = "check"
    /\ UNCHANGED <<df, button, anova_table, next_f, tukey_output, plots,
                   report, temp_files, message>>

Stop ==
    /\ pc = "check"
    /\ ShouldStop(factors, value_col)
    /\ message' = "error"
    /\ pc' = "stopped"
    /\ UNCHANGED <<df, button, factors, value_col, anova_table, next_f,
                   tukey_output, plots, report, temp_files, calls>>

RunAnova ==
    /\ pc = "check"
    /\ ~ShouldStop(factors, value_col)
    /\ LET a == run_anova(factors, value_col)
       IN  /\ anova_table' = a
           /\ pc' = IF a.status = "ok" THEN "tukey" ELSE "stopped"
           /\ message' = IF a.status = "ok" THEN message ELSE "exception"
    /\ calls' = Append(calls, Call("run_anova", factors, value_col, {}))
    /\ UNCHANGED <<df, button, factors, value_col, next_f, tukey_output,
                   plots, report, temp_files>>

\* one pass of: for f in factors
TukeyStep ==
    /\ pc = "tukey"
    /\ next_f <= Len(factors)
    /\ LET f == factors[next_f]
           t == tukey_test(df, f, value_col)
       IN  /\ tukey_output' = StrCat(tukey_output, Section(f, t))
           /\ calls' = Append(calls, Call("tukey_test", <<f>>, value_col, {}))
    /\ next_f' = next_f + 1
    /\ UNCHANGED <<df, pc, button, factors, value_col, anova_table, plots,
                   report, temp_files, message>>

CreatePlots ==
    /\ pc = "tukey"
    /\ next_f > Len(factors)
    /\ plots' = create_plots(factors, value_col)
    /\ calls' = Append(calls, Call("create_plots", factors, value_col, {}))
    /\ pc' = "button"
    /\ UNCHANGED <<df, button, factors, value_col, anova_table, next_f,
                   tukey_output, report, temp_files, message>>

\* st.button(...) is False in this run
NoButton ==
    /\ pc = "button"
    /\ ~button
    /\ pc' = "idle"
    /\ UNCHANGED <<df, button, factors, value_col, anova_table, next_f,
                   tukey_output, plots, report, temp_files, calls, message>>

\* st.button(...) is True: generate_pdf, with whatever font files the
\* working directory holds at that moment
GeneratePdf ==
    /\ pc = "button"
    /\ button
    /\ \E files \in SUBSET FontFiles :
         LET r == generate_pdf(anova_table, tukey_output, plots,
                               "./SourceHanSansSC-Regular.otf" \in files,
                               "./SimHei.ttf" \in files)
         IN  /\ report' = r
             /\ temp_files' = temp_files + r.temp_created
             /\ message' = IF r.status = "ok" THEN message ELSE "exception"
             /\ calls' = Append(calls,
                                Call("generate_pdf", <<>>, None, files))
    /\ pc' = "idle"
    /\ UNCHANGED <<df, button, factors, value_col, anova_table, next_f,
                   tukey_output, plots>>

Next ==
    \/ Upload
    \/ ClearUpload
    \/ ClickButton
    \/ DetectFactors
    \/ Stop
    \/ RunAnova
    \/ TukeyStep
    \/ CreatePlots
    \/ NoButton
    \/ GeneratePdf

Spec == Init /\ [][Next]_vars

\* ================================================================ claims
Classified == pc \notin {"await", "detect"}

NoNumeric == \A i \in 1..Len(df) : ~df[i].numeric

NonEmptySubsets(S) == (SUBSET S) \ {{}}

CallsOf(fn) == { i \in 1..Len(calls) : calls[i].fn = fn }

\* C1: with at least one numeric column, the response is the last numeric
\* column in column order and the factors are all the other columns, numeric
\* or not, in their original order: one fewer than the columns, the
\* response not among them.
C1_LastNumericIsResponse ==
    (Classified /\ ~NoNumeric) =>
        \E k \in 1..Len(df) :
            /\ df[k].numeric
            /\ \A j \in (k + 1)..Len(df) : ~df[j].numeric
            /\ value_col = df[k].name
            /\ factors = [i \in 1..(Len(df) - 1) |->
                            IF i < k THEN df[i].name ELSE df[i + 1].name]
            /\ Len(factors) = Len(df) - 1
            /\ value_col \notin Range(factors)

C1_Witness ==
    /\ Classified
    /\ \E i, j, m \in 1..Len(df) :
         /\ i < j
         /\ df[i].numeric /\ df[j].numeric /\ ~df[m].numeric
         /\ value_col = df[j].name
         /\ df[i].name \in Range(factors)
         /\ df[m].name \in Range(factors)

\* C2: with no numeric column detect_factors returns the empty factor list
\* and no response, and the run stops with the error message: run_anova,
\* tukey_test, create_plots and generate_pdf are not called in that run.
C2_NoNumericHalts ==
    (Classified /\ NoNumeric) =>
        /\ factors = <<>>
        /\ value_col = None
        /\ pc \in {"check", "stopped"}
        /\ pc = "stopped" => message = "error"
        /\ \A i \in 1..Len(calls) : calls[i].fn = "detect_factors"
        /\ anova_table = NoAnova /\ plots = <<>> /\ report = NoReport

C2_Witness ==
    /\ pc = "stopped"
    /\ Len(df) >= 2
    /\ NoNumeric
    /\ message = "error"

\* C3: for 1, 2 or 3 factors the formula expands to exactly 2^N - 1 terms,
\* every main effect and every interaction of the N factors, and no term
\* mentions another column.
C3_FullFactorialTerms ==
    (anova_table.status = "ok" /\ Len(factors) \in 1..3) =>
        /\ anova_table.terms = NonEmptySubsets(Range(factors))
        /\ Cardinality(anova_table.terms) = 2 ^ Len(factors) - 1
        /\ anova_table.response = value_col
        /\ \A t \in anova_table.terms : value_col \notin t

C3_Witness ==
    /\ anova_table.status = "ok"
    /\ Len(factors) = 3
    /\ Cardinality(anova_table.terms) = 7
    /\ {factors[1], factors[2], factors[3]} \in anova_table.terms

\* C8: with more than 3 factors the model is the full three-way factorial
\* of the first 3 factors in column order; the later factors appear nowhere
\* in it.
C8_FirstThreeFactors ==
    (anova_table.status = "ok" /\ Len(factors) > 3) =>
        /\ anova_table.branch = "else"
        /\ anova_table.operands = <<factors[1], factors[2], factors[3]>>
        /\ anova_table.terms =
               NonEmptySubsets({factors[1], factors[2], factors[3]})
        /\ \A i \in 4..Len(factors) :
               \A t \in anova_table.terms : factors[i] \notin t

C8_Witness ==
    /\ anova_table.status = "ok"
    /\ Len(factors) = 4
    /\ Cardinality(anova_table.terms) = 7

\* C10: the run stops whenever the factor list is empty, also for a dataset
\* whose only column is numeric; run_anova, tukey_test and create_plots are
\* only ever called with a non-empty factor list and a defined response,
\* and run_anova's fall-through branch is entered with 3 or more factors.
C10_NonEmptyFactorsDownstream ==
    /\ \A i \in 1..Len(calls) :
         calls[i].fn \in {"run_anova", "tukey_test", "create_plots"} =>
             /\ Len(calls[i].factors) > 0
             /\ calls[i].value_col # None
    /\ anova_table.status # "ValueError"
    /\ (anova_table.status = "ok" /\ anova_table.branch = "else") =>
           Len(factors) >= 3
    /\ (Classified /\ Len(factors) = 0) =>
           /\ pc \in {"check", "stopped"}
           /\ CallsOf("run_anova") = {}
    /\ (Classified /\ Len(df) = 1 /\ df[1].numeric) =>
           /\ factors = <<>>
           /\ value_col = df[1].name

C10_Witness ==
    /\ pc = "stopped"
    /\ message = "error"
    /\ Len(df) = 1
    /\ df[1].numeric
    /\ value_col = df[1].name
    /\ factors = <<>>

IsTukeyCall(c) == c.fn = "tukey_test"

IsLabelLine(l) == Len(l) = 1 /\ l[1].kind = "label"

IsTitleLine(l) == Len(l) = 1 /\ l[1].kind = "title"

C5_PlotsUseFirstTwoFactors ==
    (plots # <<>> /\ Len(factors) > 3) =>
        \A i \in 1..Len(plots) :
            /\ plots[i].x = factors[1]
            /\ plots[i].hue = factors[2]
            /\ plots[i].style \in {None, factors[2]}
            /\ Range(plots[i].group_by) \subseteq {factors[1], factors[2]}

\* C4 (as claimed): when the embedded typeface file is absent at the call,
\* generate_pdf still returns the report path, whatever other font files
\* exist.
C4_FallbackNeverRaises ==
    \A i \in CallsOf("generate_pdf") :
        "./SourceHanSansSC-Regular.otf" \notin calls[i].files =>
            /\ report.status = "ok"
            /\ report.path = "anova_report.pdf"

\* C6 (as claimed): however many reports were requested, the temp image
\* files still existing number no more than one request creates.
C6_TempFilesBounded == temp_files <= ChartsPerRequest

====
